---- MODULE Spec2Model ----
(***************************************************************************)
(* Notes CRUD service: the SQLite table Note, the data-access object       *)
(* NoteDao, the transactional NoteService, worker processes sharing one    *)
(* database file, and a client that pages through list().                  *)
(*                                                                         *)
(* Identifiers are UUIDv4 strings.  A string is modelled by the 16 bytes   *)
(* it parses to (a number, ordered as memcmp orders the blobs) and by its  *)
(* letter case, which the validator accepts either way.  Timestamps are    *)
(* integer milliseconds read from one clock shared by the workers; the     *)
(* clock never runs backwards.                                             *)
(***************************************************************************)
EXTENDS Integers, Sequences, FiniteSets, TLC

MaxIds == 2
MaxTime == 1
MaxCreates == 2
MaxConnections == 2
MaxSignals == 2

MIN_PAGE_SIZE == 1
MAX_PAGE_SIZE == 100
DEFAULT_PAGE_SIZE == 20

Workers == {"w1", "w2"}
NoWorker == "none"
IdBytes == 1..MaxIds
Contents == {"", "a"}

VARIABLES db, now, lock, pc, call, tx, ret, sql, nextSeq, otherWrites, scan,
          issued, proc

vars == <<db, now, lock, pc, call, tx, ret, sql, nextSeq, otherWrites, scan,
          issued, proc>>

(***************************************************************************)
(* Values                                                                  *)
(***************************************************************************)
Undefined == [kind |-> "undefined"]
NULL == [kind |-> "null"]

\* The strings new UuidV4(value) accepts.
UuidV4 == [kind : {"uuid"}, bytes : IdBytes, upper : BOOLEAN]

\* parse: the 16 bytes of an identifier string; hex digits of either case
\* give the same bytes.
parseUuid(id) == id.bytes

\* v4({random: bytes}): the lowercase dashed form of the bytes (the version
\* and variant bits it forces are already those of a stored identifier).
uuidv4FromRandom(bytes) == [kind |-> "uuid", bytes |-> bytes, upper |-> FALSE]

\* v4(): a fresh random identifier, always printed in lowercase.
FreshUuids == {uuidv4FromRandom(b) : b \in IdBytes}

\* The identifiers callers pass: every lowercase one, and an uppercase
\* spelling of the first.
UuidArgs == FreshUuids \cup {[kind |-> "uuid", bytes |-> 1, upper |-> TRUE]}

NoteForCreate(content) == [content |-> content]
NoteForUpdate(id, content) == [id |-> id, content |-> content]
Note(id, content, creationDateTime, lastUpdatedDateTime) ==
    [kind |-> "note", id |-> id, content |-> content,
     creationDateTime |-> creationDateTime,
     lastUpdatedDateTime |-> lastUpdatedDateTime]
NoteListPage(pageSize, notes) == [kind |-> "page", pageSize |-> pageSize, notes |-> notes]

\* id instanceof UuidV4
IsUuidV4(x) == "kind" \in DOMAIN x /\ x.kind = "uuid"

\* note instanceof NoteForCreate: NoteForUpdate and Note extend it.
IsNoteForCreate(x) == "content" \in DOMAIN x

\* note instanceof NoteForUpdate: Note extends it.
IsNoteForUpdate(x) == {"id", "content"} \subseteq DOMAIN x

(***************************************************************************)
(* The table Note.  A store value is a function from the primary keys      *)
(* present to their rows; seq is the position of the row's INSERT among    *)
(* all successful inserts (history, no column of the table).               *)
(***************************************************************************)
EmptyStore == <<>>

\* unixepoch('subsec') * 1000 cast to INTEGER, at clock reading t.
UnixEpochMillis(t) == t

InsertRowZeroUpdated(s, bytes, content, t, seq) ==
    s @@ (bytes :> [content |-> content,
                    creationDateTime |-> UnixEpochMillis(t),
                    lastUpdatedDateTime |-> 0,
                    seq |-> seq])

\* new Database(databaseFilename): the settings of a connection as
\* better-sqlite3 opens it (its timeout option defaults to 5000 ms, the
\* journal is a rollback journal).
NewDatabase == [busy_timeout |-> 5000, journal_mode |-> "delete"]

\* The PRAGMA statements of 000_db_schema_create.sql, in the order of the
\* script.
SchemaPragmas ==
    << <<"encoding", "UTF-8">>,
       <<"foreign_keys", "ON">>,
       <<"busy_timeout", 5000>>,
       <<"temp_store", "memory">>,
       <<"busy_timeout", 0 - 100000>>,
       <<"journal_mode", "wal">>,
       <<"synchronous", "NORMAL">> >>

\* PRAGMA name = value on a connection.  busy_timeout installs a busy handler
\* that sleeps up to value milliseconds when value is positive, and removes
\* the handler when it is not (sqlite3_busy_timeout): no wait at all.
ExecPragma(conn, pragma) ==
    LET name == pragma[1]
        value == pragma[2]
    IN  IF name = "busy_timeout"
          THEN (name :> (IF value > 0 THEN value ELSE 0)) @@ conn
          ELSE (name :> value) @@ conn

RECURSIVE Exec(_, _)
\* db.exec(script): the statements one after the other.
Exec(conn, script) ==
    IF script = <<>> THEN conn
    ELSE Exec(ExecPragma(conn, Head(script)), Tail(script))

\* SqliteConnectionFactory.createConnection(databaseFilename): every
\* process opens its connection this way.
createConnection == Exec(NewDatabase, SchemaPragmas)

\* The time in milliseconds a statement of the connection waits for a lock
\* before it fails with SQLITE_BUSY.
BusyTimeout == createConnection.busy_timeout

JournalModeDelete == "delete"

\* PRAGMA journal_mode = WAL: readers read a snapshot of the write-ahead log
\* and take no lock a writer needs.
JournalMode == createConnection.journal_mode

PrimaryKeyTakenNever(s, bytes) == FALSE

\* id BLOB PRIMARY KEY: an INSERT whose id is the id of a row fails with
\* SQLITE_CONSTRAINT_PRIMARYKEY.
PrimaryKeyTaken(s, bytes) == bytes \in DOMAIN s

\* INSERT INTO Note (id, content): both timestamp columns take their DEFAULT,
\* the same clock reading within one statement.
InsertRow(s, bytes, content, t, seq) ==
    s @@ (bytes :> [content |-> content,
                    creationDateTime |-> UnixEpochMillis(t),
                    lastUpdatedDateTime |-> UnixEpochMillis(t),
                    seq |-> seq])

TriggerStampsCreation(s, bytes, t) ==
    [s EXCEPT ![bytes].creationDateTime = UnixEpochMillis(t)]

TriggerStampsSeconds(s, bytes, t) ==
    [s EXCEPT ![bytes].lastUpdatedDateTime = UnixEpochMillis(t) \div 1000]

\* tr_Note_update_lastUpdatedDateTime_au: after an UPDATE of the row new.id,
\* stamp its lastUpdatedDateTime (recursive triggers are off: it fires once).
tr_Note_update_lastUpdatedDateTime_au(s, bytes, t) ==
    [s EXCEPT ![bytes].lastUpdatedDateTime = UnixEpochMillis(t)]

UpdateRowsKeepContent(s, bytes, content, t) ==
    IF bytes \in DOMAIN s
      THEN [store |-> tr_Note_update_lastUpdatedDateTime_au(s, bytes, t), changes |-> 1]
      ELSE [store |-> s, changes |-> 0]

UpdateRowsOrInsert(s, bytes, content, t) ==
    IF bytes \in DOMAIN s
      THEN [store |-> tr_Note_update_lastUpdatedDateTime_au(
                          [s EXCEPT ![bytes].content = content], bytes, t),
            changes |-> 1]
      ELSE [store |-> InsertRow(s, bytes, content, t, 0), changes |-> 1]

\* UPDATE Note SET content = :content WHERE id = :id, with its trigger;
\* changes is the number of rows the statement matched.
UpdateRows(s, bytes, content, t) ==
    IF bytes \in DOMAIN s
      THEN [store |-> tr_Note_update_lastUpdatedDateTime_au(
                          [s EXCEPT ![bytes].content = content], bytes, t),
            changes |-> 1]
      ELSE [store |-> s, changes |-> 0]

DeleteRowsEveryRow(s, bytes) ==
    [store |-> EmptyStore, changes |-> Cardinality(DOMAIN s)]

\* DELETE FROM Note WHERE id = :id
DeleteRows(s, bytes) ==
    IF bytes \in DOMAIN s
      THEN [store |-> [b \in DOMAIN s \ {bytes} |-> s[b]], changes |-> 1]
      ELSE [store |-> s, changes |-> 0]

(***************************************************************************)
(* NoteDao: each method applied to the store value its statement sees.     *)
(* A result is [status, cause, val]; status "ok" is a normal return.       *)
(***************************************************************************)
Ok(val) == [status |-> "ok", cause |-> "none", val |-> val]
Thrown(status, cause) == [status |-> status, cause |-> cause, val |-> NULL]

\* typeof value === "string"
IsString(x) == "kind" \in DOMAIN x /\ x.kind = "string"

\* A string that has the layout of a UUID (8-4-4-4-12 hexadecimal digits):
\* its version digit, whether its variant digit is one of 8, 9, a, b, whether
\* its letters are upper case, and bytes for its other digits.
UuidString(bytes, upper, version, variantOk) ==
    [kind |-> "string", form |-> "uuid", bytes |-> bytes, upper |-> upper,
     version |-> version, variantOk |-> variantOk]

\* The nil UUID, all digits zero.
NilUuidString == [kind |-> "string", form |-> "nil"]

\* Any other string.
Str(value) == [kind |-> "string", form |-> "text", value |-> value]

\* validate(value) of the uuid package: a string of the UUID layout with
\* version digit 1 to 5 and variant digit 8, 9, a or b (letters of either
\* case), or the nil UUID.
validateUuid(value) ==
    /\ IsString(value)
    /\ \/ value.form = "nil"
       \/ value.form = "uuid" /\ value.version \in 1..5 /\ value.variantOk

\* version(value) of the uuid package: the version digit.
uuidVersion(value) == IF value.form = "nil" THEN 0 ELSE value.version

UuidV4_new_AnyVersion(value) ==
    IF ~validateUuid(value) \/ uuidVersion(value) = 0
      THEN Thrown("TypeError", "none")
      ELSE Ok([kind |-> "uuid", bytes |-> value.bytes, upper |-> value.upper])

\* new UuidV4(value): the object holding the string, or the TypeError.
UuidV4_new(value) ==
    IF ~validateUuid(value) \/ uuidVersion(value) # 4
      THEN Thrown("TypeError", "none")
      ELSE Ok([kind |-> "uuid", bytes |-> value.bytes, upper |-> value.upper])

\* get value(), toJSON()
UuidV4_value(id) == UuidString(id.bytes, id.upper, 4, TRUE)

mapRowToNote(bytes, row) ==
    Note(uuidv4FromRandom(bytes), row.content, row.creationDateTime, row.lastUpdatedDateTime)

NoteDao_findById_NoNullCheck(s, id) ==
    IF parseUuid(id) \in DOMAIN s
      THEN Ok(mapRowToNote(parseUuid(id), s[parseUuid(id)]))
      ELSE Thrown("DaoError", "TypeError")

\* SELECT ... WHERE id = :id; null when no row matches.
NoteDao_findById(s, id) ==
    IF parseUuid(id) \in DOMAIN s
      THEN Ok(mapRowToNote(parseUuid(id), s[parseUuid(id)]))
      ELSE Ok(NULL)

NoteDao_update(s, note, t) ==
    UpdateRows(s, parseUuid(note.id), note.content, t)

NoteDao_deleteById(s, id) ==
    DeleteRows(s, parseUuid(id))


\* An optional pageSize argument: omitted, or a number.
Number(n) == [kind |-> "number", value |-> n]

\* Number.isInteger(pageSize): the numbers of the model are integers, NaN and
\* every other value is not.
IsInteger(x) == "kind" \in DOMAIN x /\ x.kind = "number"

NaN == [kind |-> "NaN"]

OrderedBeforeIdDescending(s, a, b) ==
    \/ s[a].creationDateTime > s[b].creationDateTime
    \/ s[a].creationDateTime = s[b].creationDateTime /\ a > b

\* creationDateTime DESC, id ASC: row a sorts before row b.
OrderedBefore(s, a, b) ==
    \/ s[a].creationDateTime > s[b].creationDateTime
    \/ s[a].creationDateTime = s[b].creationDateTime /\ a < b

RECURSIVE OrderBy(_, _)
OrderBy(s, keys) ==
    IF keys = {} THEN <<>>
    ELSE LET first == CHOOSE a \in keys : \A b \in keys \ {a} : OrderedBefore(s, a, b)
         IN <<first>> \o OrderBy(s, keys \ {first})

LimitOneMore(rows, n) == SubSeq(rows, 1, IF Len(rows) < n + 1 THEN Len(rows) ELSE n + 1)

\* LIMIT :pageSize
Limit(rows, n) == SubSeq(rows, 1, IF Len(rows) < n THEN Len(rows) ELSE n)

ListArgumentErrorNoLowerBound(pageSize, afterId) ==
    IF pageSize # Undefined /\ ~IsInteger(pageSize) THEN "TypeError"
    ELSE IF pageSize # Undefined /\ pageSize.value > MAX_PAGE_SIZE THEN "RangeError"
    ELSE IF afterId # Undefined /\ ~IsUuidV4(afterId) THEN "TypeError"
    ELSE "none"

\* The argument checks of list(pageSize, afterId), in their order: the error
\* thrown, or "none".
ListArgumentError(pageSize, afterId) ==
    IF pageSize # Undefined /\ ~IsInteger(pageSize) THEN "TypeError"
    ELSE IF pageSize # Undefined
            /\ (pageSize.value < MIN_PAGE_SIZE \/ pageSize.value > MAX_PAGE_SIZE) THEN "RangeError"
    ELSE IF afterId # Undefined /\ ~IsUuidV4(afterId) THEN "TypeError"
    ELSE "none"

\* SELECT ... [WHERE id > :afterId] ORDER BY creationDateTime DESC, id ASC
\* LIMIT :pageSize, after the argument checks.
NoteDao_list(s, pageSize, afterId) ==
    LET size == IF pageSize = Undefined THEN DEFAULT_PAGE_SIZE ELSE pageSize.value
        keys == IF afterId = Undefined
                  THEN DOMAIN s
                  ELSE {b \in DOMAIN s : b > parseUuid(afterId)}
        rows == Limit(OrderBy(s, keys), size)
    IN IF ListArgumentError(pageSize, afterId) # "none"
         THEN Thrown(ListArgumentError(pageSize, afterId), "none")
         ELSE Ok(NoteListPage(size, [i \in 1..Len(rows) |-> mapRowToNote(rows[i], s[rows[i]])]))

\* The keys of a scan of the table's b-tree: a WITHOUT ROWID table is stored
\* in primary key order.
RECURSIVE TableScan(_)
TableScan(keys) ==
    IF keys = {} THEN <<>>
    ELSE LET first == CHOOSE a \in keys : \A b \in keys : a <= b
         IN <<first>> \o TableScan(keys \ {first})

\* SELECT ... FROM Note, without ORDER BY: the rows in scan order.
NoteDao_findAll(s) ==
    LET rows == TableScan(DOMAIN s)
    IN Ok([i \in 1..Len(rows) |-> mapRowToNote(rows[i], s[rows[i]])])

(***************************************************************************)
(* NoteService and the processes that call it.  ret is the outcome of the  *)
(* call completed by the latest step (NoRet when that step completed       *)
(* none): the class of the error thrown, its root cause, the argument,     *)
(* the value returned.                                                     *)
(***************************************************************************)
NoRet == [w |-> NoWorker, op |-> "none", status |-> "none", cause |-> "none",
          arg |-> Undefined, val |-> NULL, changes |-> 0]

Outcome(w, op, arg, r, changes) ==
    [w |-> w, op |-> op, status |-> r.status, cause |-> r.cause,
     arg |-> arg, val |-> r.val, changes |-> changes]

\* catch (err) { throw new ServiceError(..., { cause: err }) }
ServiceWrap(r) == IF r.status = "ok" THEN r ELSE Thrown("ServiceError", r.cause)

NoCall == [op |-> "none", arg |-> Undefined, existingNote |-> NULL, changes |-> 0]

ScanIdle == [state |-> "idle", pageSize |-> 0, afterId |-> Undefined, seen |-> <<>>]

TxModeDeferred == "deferred"

\* updateIfExists.immediate(note), deleteIfExists.immediate(id): BEGIN IMMEDIATE.
TxMode == "immediate"

NoteInexistentNever(existingNote) == FALSE

NoteInexistentInverted(existingNote) == existingNote # NULL

\* if (!existingNote)
NoteInexistent(existingNote) == existingNote = NULL

\* The process after the entry module has run: createConnection has opened
\* the connection, app.listen the server; no client is connected, no signal
\* has arrived (closeCallbacks counts the callbacks given to server.close).
Running ==
    [entry |-> "cluster worker", server |-> "listening", connections |-> 0,
     closeCallbacks |-> 0, databaseConnection |-> "open", exited |-> FALSE,
     events |-> <<>>]

Init ==
    /\ db = EmptyStore
    /\ now = 0
    /\ lock = NoWorker
    /\ pc = [w \in Workers |-> "idle"]
    /\ call = [w \in Workers |-> NoCall]
    /\ tx = [w \in Workers |-> EmptyStore]
    /\ ret = NoRet
    /\ sql = <<>>
    /\ nextSeq = 1
    /\ otherWrites = FALSE
    /\ scan = ScanIdle
    /\ issued = {}
    /\ proc = Running

\* The clock advances.
Tick ==
    /\ now < MaxTime
    /\ now' = now + 1
    /\ UNCHANGED <<db, lock, pc, call, tx, ret, sql, nextSeq, issued, proc, otherWrites, scan>>

\* Values of the wrong type for every parameter: undefined, null, {}, "a".
BadArgs == {Undefined, NULL, [kind |-> "object"], Str("a")}

\* A caught error as the layer rethrows it: the DAO's own error, or wrapped
\* by the service.
Rethrow(layer, r) == IF layer = "service" THEN ServiceWrap(r) ELSE r

RejectArgumentInsideTransaction(w, op, arg, error) ==
    /\ pc[w] = "idle"
    /\ ret' = Outcome(w, op, arg, Thrown(error, "none"), 0)
    /\ sql' = <<"BEGIN IMMEDIATE", "ROLLBACK">>
    /\ UNCHANGED <<db, now, lock, pc, call, tx, nextSeq, issued, proc, otherWrites, scan>>

\* The argument checks at the head of a method throw before a statement is
\* prepared or a transaction function is called.
RejectArgument(w, op, arg, error) ==
    /\ pc[w] = "idle"
    /\ ret' = Outcome(w, op, arg, Thrown(error, "none"), 0)
    /\ sql' = <<>>
    /\ UNCHANGED <<db, now, lock, pc, call, tx, nextSeq, issued, proc, otherWrites, scan>>

\* create(note) of the DAO, and of the service which passes the note on: one
\* INSERT in autocommit mode.  It needs the write lock; the generated
\* identifier may collide with a row.
Create(w, op, layer, note) ==
    IF ~IsNoteForCreate(note)
      THEN RejectArgument(w, op, note, "TypeError")
      ELSE /\ pc[w] = "idle"
           /\ nextSeq <= MaxCreates
           /\ sql' = <<"INSERT">>
           /\ \E id \in FreshUuids :
                IF lock # NoWorker
                  THEN /\ ret' = Outcome(w, op, note,
                                         Rethrow(layer, Thrown("DaoError", "SQLITE_BUSY")), 0)
                       /\ now' = now + BusyTimeout
                       /\ UNCHANGED <<db, nextSeq, issued, proc, scan>>
                  ELSE IF PrimaryKeyTaken(db, parseUuid(id))
                    THEN /\ ret' = Outcome(w, op, note,
                                           Rethrow(layer, Thrown("DaoError", "SQLITE_CONSTRAINT_PRIMARYKEY")), 0)
                         /\ UNCHANGED <<db, now, nextSeq, issued, proc, scan>>
                    ELSE /\ db' = InsertRow(db, parseUuid(id), note.content, now, nextSeq)
                         /\ nextSeq' = nextSeq + 1
                         /\ issued' = issued \cup {parseUuid(id)}
                         /\ UNCHANGED <<now, proc>>
                         /\ ret' = Outcome(w, op, note, Ok(id), 1)
                         /\ scan' = ScanIdle
           /\ UNCHANGED <<lock, pc, call, tx, otherWrites>>

\* findById(id) of the DAO, and of the service which passes the id on: one
\* SELECT on the committed rows.
FindById(w, op, layer, id) ==
    IF ~IsUuidV4(id)
      THEN RejectArgument(w, op, id, "TypeError")
      ELSE /\ pc[w] = "idle"
           /\ sql' = <<"SELECT">>
           /\ ret' = Outcome(w, op, id, Rethrow(layer, NoteDao_findById(db, id)), 0)
           /\ UNCHANGED <<db, now, lock, pc, call, tx, nextSeq, issued, proc, otherWrites, scan>>

\* list(pageSize, afterId) of the DAO, and of the service which makes the
\* same checks and passes the arguments on.
List(w, op, layer, pageSize, afterId) ==
    IF ListArgumentError(pageSize, afterId) # "none"
      THEN RejectArgument(w, op, [pageSize |-> pageSize, afterId |-> afterId],
                          ListArgumentError(pageSize, afterId))
      ELSE /\ pc[w] = "idle"
           /\ sql' = <<"SELECT">>
           /\ ret' = Outcome(w, op, [pageSize |-> pageSize, afterId |-> afterId],
                             Rethrow(layer, NoteDao_list(db, pageSize, afterId)), 0)
           /\ UNCHANGED <<db, now, lock, pc, call, tx, nextSeq, issued, proc, otherWrites, scan>>

\* findAll() of the DAO and of the service.
FindAll(w, op, layer) ==
    /\ pc[w] = "idle"
    /\ sql' = <<"SELECT">>
    /\ ret' = Outcome(w, op, Undefined, Rethrow(layer, NoteDao_findAll(db)), 0)
    /\ UNCHANGED <<db, now, lock, pc, call, tx, nextSeq, issued, proc, otherWrites, scan>>

\* A write statement of the DAO called outside a transaction (autocommit),
\* result written = [store, changes].
WriteAutocommit(w, op, arg, stmt, written) ==
    /\ pc[w] = "idle"
    /\ sql' = <<stmt>>
    /\ IF lock # NoWorker
         THEN /\ ret' = Outcome(w, op, arg, Thrown("DaoError", "SQLITE_BUSY"), 0)
              /\ now' = now + BusyTimeout
              /\ UNCHANGED <<db, otherWrites, scan>>
         ELSE /\ db' = written.store
              /\ ret' = Outcome(w, op, arg, Ok(Undefined), written.changes)
              /\ otherWrites' = TRUE
              /\ scan' = ScanIdle
              /\ UNCHANGED now
    /\ UNCHANGED <<lock, pc, call, tx, nextSeq, issued, proc>>

NoteDao_create(w, note) == Create(w, "dao.create", "dao", note)

Dao_findById(w, id) == FindById(w, "dao.findById", "dao", id)

Dao_list(w, pageSize, afterId) == List(w, "dao.list", "dao", pageSize, afterId)

Dao_findAll(w) == FindAll(w, "dao.findAll", "dao")

Dao_update(w, note) ==
    IF ~IsNoteForUpdate(note)
      THEN RejectArgument(w, "dao.update", note, "TypeError")
      ELSE WriteAutocommit(w, "dao.update", note, "UPDATE", NoteDao_update(db, note, now))

Dao_deleteById(w, id) ==
    IF ~IsUuidV4(id)
      THEN RejectArgument(w, "dao.deleteById", id, "TypeError")
      ELSE WriteAutocommit(w, "dao.deleteById", id, "DELETE", NoteDao_deleteById(db, id))

NoteService_create(w, note) == Create(w, "create", "service", note)

NoteService_findById(w, id) == FindById(w, "findById", "service", id)

NoteService_list(w, pageSize, afterId) == List(w, "list", "service", pageSize, afterId)

NoteService_findAll(w) == FindAll(w, "findAll", "service")

BeginOnEmptySnapshot(w, op, arg) ==
    /\ pc[w] = "idle"
    /\ sql' = <<"BEGIN IMMEDIATE">>
    /\ IF lock # NoWorker
         THEN /\ ret' = Outcome(w, op, arg, Thrown("SqliteError", "SQLITE_BUSY"), 0)
              /\ UNCHANGED <<lock, pc, call, tx>>
         ELSE /\ lock' = w
              /\ pc' = [pc EXCEPT ![w] = "began"]
              /\ call' = [call EXCEPT ![w] = [NoCall EXCEPT !.op = op, !.arg = arg]]
              /\ tx' = [tx EXCEPT ![w] = EmptyStore]
              /\ ret' = NoRet
    /\ UNCHANGED <<db, now, nextSeq, issued, proc, otherWrites, scan>>

\* db.transaction(fn).immediate(arg), first part: BEGIN.  In immediate mode
\* the write lock is taken now, and BEGIN throws SQLITE_BUSY when another
\* connection holds it, after the connection's busy timeout; a deferred BEGIN
\* takes nothing.
Begin(w, op, arg) ==
    /\ pc[w] = "idle"
    /\ sql' = <<IF TxMode = "immediate" THEN "BEGIN IMMEDIATE" ELSE "BEGIN">>
    /\ IF TxMode = "immediate" /\ lock # NoWorker
         THEN /\ ret' = Outcome(w, op, arg, Thrown("SqliteError", "SQLITE_BUSY"), 0)
              /\ now' = now + BusyTimeout
              /\ UNCHANGED <<lock, pc, call, tx>>
         ELSE /\ lock' = IF TxMode = "immediate" THEN w ELSE lock
              /\ pc' = [pc EXCEPT ![w] = "began"]
              /\ call' = [call EXCEPT ![w] = [NoCall EXCEPT !.op = op, !.arg = arg]]
              /\ tx' = [tx EXCEPT ![w] = db]
              /\ ret' = NoRet
              /\ UNCHANGED now
    /\ UNCHANGED <<db, nextSeq, issued, proc, otherWrites, scan>>

\* The statement the next step of w's open transaction executes.
Statement(w) ==
    IF pc[w] = "began" THEN "SELECT"
    ELSE IF call[w].op = "update" THEN "UPDATE" ELSE "DELETE"

RollbackLeavesOpen(w, r) ==
    /\ pc' = [pc EXCEPT ![w] = "idle"]
    /\ tx' = [tx EXCEPT ![w] = EmptyStore]
    /\ ret' = Outcome(w, call[w].op, call[w].arg, r, 0)
    /\ sql' = <<Statement(w)>>
    /\ call' = [call EXCEPT ![w] = NoCall]
    /\ UNCHANGED <<db, now, lock, nextSeq, issued, proc, otherWrites, scan>>

\* The wrapper's catch: ROLLBACK, then rethrow.
Rollback(w, r) ==
    /\ lock' = IF lock = w THEN NoWorker ELSE lock
    /\ pc' = [pc EXCEPT ![w] = "idle"]
    /\ tx' = [tx EXCEPT ![w] = EmptyStore]
    /\ ret' = Outcome(w, call[w].op, call[w].arg, r, 0)
    /\ sql' = <<Statement(w), "ROLLBACK">>
    /\ call' = [call EXCEPT ![w] = NoCall]
    /\ UNCHANGED <<db, now, nextSeq, issued, proc, otherWrites, scan>>

\* The rows a statement of w's open transaction reads: its own once it holds
\* the write lock, else the committed rows.
View(w) == IF lock = w THEN tx[w] ELSE db

\* Inside the transaction: existingNote = noteDao.findById(id), then the
\* not-found check.
FindExisting(w, id) ==
    LET r == NoteDao_findById(View(w), id)
    IN IF r.status # "ok"
         THEN Rollback(w, ServiceWrap(r))
         ELSE IF NoteInexistent(r.val)
           THEN Rollback(w, Thrown("EntityNotFoundError", "none"))
           ELSE /\ pc' = [pc EXCEPT ![w] = "checked"]
                /\ call' = [call EXCEPT ![w].existingNote = r.val]
                /\ tx' = [tx EXCEPT ![w] = View(w)]
                /\ ret' = NoRet
                /\ sql' = <<Statement(w)>>
                /\ UNCHANGED <<db, now, lock, nextSeq, issued, proc, otherWrites, scan>>

\* Inside the transaction: the write statement, result written = [store, changes].
\* A deferred transaction takes the write lock here, and fails with
\* SQLITE_BUSY when the lock is held or its snapshot is no longer the latest.
WriteInTx(w, written) ==
    IF lock = w \/ (lock = NoWorker /\ tx[w] = db)
      THEN /\ lock' = w
           /\ tx' = [tx EXCEPT ![w] = written.store]
           /\ call' = [call EXCEPT ![w].changes = written.changes]
           /\ pc' = [pc EXCEPT ![w] = "wrote"]
           /\ ret' = NoRet
           /\ sql' = <<Statement(w)>>
           /\ UNCHANGED <<db, now, nextSeq, issued, proc, otherWrites, scan>>
      ELSE Rollback(w, ServiceWrap(Thrown("DaoError", "SQLITE_BUSY")))

\* NoteService.update: the argument check, then BEGIN.
NoteService_update(w, note) ==
    IF ~IsNoteForUpdate(note)
      THEN RejectArgument(w, "update", note, "TypeError")
      ELSE Begin(w, "update", note)

updateIfExists_find(w) ==
    /\ pc[w] = "began"
    /\ call[w].op = "update"
    /\ FindExisting(w, call[w].arg.id)

updateIfExists_update(w) ==
    /\ pc[w] = "checked"
    /\ call[w].op = "update"
    /\ WriteInTx(w, NoteDao_update(tx[w], call[w].arg, now))

\* NoteService.deleteById: the argument check, then BEGIN.
NoteService_deleteById(w, id) ==
    IF ~IsUuidV4(id)
      THEN RejectArgument(w, "deleteById", id, "TypeError")
      ELSE Begin(w, "deleteById", id)

deleteIfExists_find(w) ==
    /\ pc[w] = "began"
    /\ call[w].op = "deleteById"
    /\ FindExisting(w, call[w].arg)

deleteIfExists_delete(w) ==
    /\ pc[w] = "checked"
    /\ call[w].op = "deleteById"
    /\ WriteInTx(w, NoteDao_deleteById(tx[w], call[w].arg))

\* The wrapper's COMMIT after fn returned: the transaction's rows become the
\* committed rows and the write lock is released; the call returns.
Commit(w) ==
    /\ pc[w] = "wrote"
    /\ db' = tx[w]
    /\ lock' = NoWorker
    /\ pc' = [pc EXCEPT ![w] = "idle"]
    /\ tx' = [tx EXCEPT ![w] = EmptyStore]
    /\ ret' = Outcome(w, call[w].op, call[w].arg, Ok(call[w].existingNote), call[w].changes)
    /\ sql' = <<"COMMIT">>
    /\ call' = [call EXCEPT ![w] = NoCall]
    /\ otherWrites' = TRUE
    /\ scan' = ScanIdle
    /\ UNCHANGED <<now, nextSeq, issued, proc>>

\* The pageSize arguments callers pass: omitted, in range, and outside it.
PageSizeArgs == {Undefined, Number(0), Number(1), Number(2), Number(101)}

\* The identifier strings of a page's notes, as bytes, in page order.
PageKeys(notes) == [i \in 1..Len(notes) |-> parseUuid(notes[i].id)]

\* A client pages through the notes: firstPage = list(pageSize), and afterId
\* is the id of the page's last note.  Any write to the table in between
\* ends the walk (scan is reset by the writers).
ListFirstPage(w, pageSize) ==
    /\ pc[w] = "idle"
    /\ LET r == ServiceWrap(NoteDao_list(db, pageSize, Undefined))
       IN /\ r.status = "ok"
          /\ ret' = Outcome(w, "list", [pageSize |-> pageSize, afterId |-> Undefined], r, 0)
          /\ sql' = <<"SELECT">>
          /\ scan' = IF r.val.notes = <<>>
                       THEN [ScanIdle EXCEPT !.state = "done", !.pageSize = r.val.pageSize]
                       ELSE [state |-> "paging", pageSize |-> r.val.pageSize,
                             afterId |-> r.val.notes[Len(r.val.notes)].id,
                             seen |-> PageKeys(r.val.notes)]
    /\ UNCHANGED <<db, now, lock, pc, call, tx, nextSeq, issued, proc, otherWrites>>

\* nextPage = list(pageSize, afterId), until a page is empty.
ListNextPage(w) ==
    /\ pc[w] = "idle"
    /\ scan.state = "paging"
    /\ LET r == ServiceWrap(NoteDao_list(db, Number(scan.pageSize), scan.afterId))
       IN /\ ret' = Outcome(w, "list", [pageSize |-> Number(scan.pageSize), afterId |-> scan.afterId], r, 0)
          /\ sql' = <<"SELECT">>
          /\ scan' = IF r.val.notes = <<>>
                       THEN [scan EXCEPT !.state = "done"]
                       ELSE [scan EXCEPT !.afterId = r.val.notes[Len(r.val.notes)].id,
                                         !.seen = scan.seen \o PageKeys(r.val.notes)]
    /\ UNCHANGED <<db, now, lock, pc, call, tx, nextSeq, issued, proc, otherWrites>>

Ops(w) ==
    \/ \E content \in Contents : NoteService_create(w, NoteForCreate(content))
    \/ \E id \in UuidArgs : NoteService_findById(w, id)
    \/ \E id \in UuidArgs, content \in Contents : NoteService_update(w, NoteForUpdate(id, content))
    \/ updateIfExists_find(w)
    \/ updateIfExists_update(w)
    \/ \E id \in UuidArgs : NoteService_deleteById(w, id)
    \/ deleteIfExists_find(w)
    \/ deleteIfExists_delete(w)
    \/ Commit(w)

\* The listing calls of a process.
Listing(w) ==
    \/ \E pageSize \in PageSizeArgs, afterId \in {Undefined} \cup UuidArgs :
         NoteService_list(w, pageSize, afterId)
    \/ \E pageSize \in PageSizeArgs : ListFirstPage(w, pageSize)
    \/ ListNextPage(w)

Next ==
    \/ Tick
    \/ \E w \in Workers : Ops(w)

\* Worker processes sharing the database file, each serving one request at
\* a time.
Spec == Init /\ [][Next]_vars

NextList ==
    \/ Tick
    \/ Ops("w1")
    \/ Listing("w1")

\* A single process that also lists and pages.
SpecList == Init /\ [][NextList]_vars

\* The arguments a caller may pass where a note or an identifier is expected.
NoteArgs ==
    BadArgs \cup UuidArgs
            \cup {NoteForCreate(content) : content \in Contents}
            \cup {NoteForUpdate(id, content) : id \in UuidArgs, content \in Contents}

\* The pageSize arguments of the calls: also the upper limit, a negative
\* number and values that are no integers.
CallPageSizes == PageSizeArgs \cup {Number(100), Number(0 - 1), NaN, NULL}

\* The afterId arguments of the calls.
CallAfterIds == {Undefined, NULL} \cup UuidArgs

\* Direct calls of the DAO's methods, as its unit tests make them.
DaoCalls(w) ==
    \/ \E note \in NoteArgs : NoteDao_create(w, note)
    \/ \E id \in NoteArgs : Dao_findById(w, id)
    \/ \E pageSize \in CallPageSizes, afterId \in CallAfterIds : Dao_list(w, pageSize, afterId)
    \/ Dao_findAll(w)
    \/ \E note \in NoteArgs : Dao_update(w, note)
    \/ \E id \in NoteArgs : Dao_deleteById(w, id)

\* Calls of the service's methods with arguments of any type.
ServiceCalls(w) ==
    \/ \E note \in NoteArgs : NoteService_create(w, note)
    \/ \E id \in NoteArgs : NoteService_findById(w, id)
    \/ \E pageSize \in CallPageSizes, afterId \in CallAfterIds : NoteService_list(w, pageSize, afterId)
    \/ NoteService_findAll(w)
    \/ \E note \in NoteArgs : NoteService_update(w, note)
    \/ updateIfExists_find(w)
    \/ updateIfExists_update(w)
    \/ \E id \in NoteArgs : NoteService_deleteById(w, id)
    \/ deleteIfExists_find(w)
    \/ deleteIfExists_delete(w)
    \/ Commit(w)

NextCalls ==
    \/ Tick
    \/ DaoCalls("w1")
    \/ ServiceCalls("w1")

\* A single process calling the DAO and the service with valid and invalid
\* arguments.
SpecCalls == Init /\ [][NextCalls]_vars

\* The identifier an update or deleteById call was given.
CallId(op, arg) == IF op \in {"update", "dao.update"} THEN arg.id ELSE arg

(***************************************************************************)
(* The HTTP routes of /api/v1/notes.  A handler runs to completion in its  *)
(* process: the service call it makes is one step, seeing the rows and the *)
(* write lock as the other worker's transaction left them.  A statement    *)
(* may fail with an I/O error of the database file (fault).                *)
(***************************************************************************)

\* The result of a service call that ran to completion: its outcome r, the
\* committed rows afterwards, the rows changed, the statements sent.
Done(r, store, changes, stmts) ==
    [r |-> r, store |-> store, changes |-> changes, stmts |-> stmts]

IoError == Thrown("DaoError", "SQLITE_IOERR")

\* NoteService.create(note) with the identifier id drawn by the DAO.
RunCreate(s, busy, fault, note, id, t, seq) ==
    IF busy THEN Done(ServiceWrap(Thrown("DaoError", "SQLITE_BUSY")), s, 0, <<"INSERT">>)
    ELSE IF fault THEN Done(ServiceWrap(IoError), s, 0, <<"INSERT">>)
    ELSE IF PrimaryKeyTaken(s, parseUuid(id))
      THEN Done(ServiceWrap(Thrown("DaoError", "SQLITE_CONSTRAINT_PRIMARYKEY")), s, 0, <<"INSERT">>)
      ELSE Done(Ok(id), InsertRow(s, parseUuid(id), note.content, t, seq), 1, <<"INSERT">>)

\* NoteService.findById(id)
RunFindById(s, fault, id) ==
    Done(ServiceWrap(IF fault THEN IoError ELSE NoteDao_findById(s, id)), s, 0, <<"SELECT">>)

\* NoteService.list(pageSize, afterId)
RunList(s, fault, pageSize, afterId) ==
    IF ListArgumentError(pageSize, afterId) # "none"
      THEN Done(Thrown(ListArgumentError(pageSize, afterId), "none"), s, 0, <<>>)
      ELSE Done(ServiceWrap(IF fault THEN IoError ELSE NoteDao_list(s, pageSize, afterId)),
                s, 0, <<"SELECT">>)

\* NoteService.update(note) and NoteService.deleteById(id): BEGIN, the
\* existence check, the write, COMMIT, or ROLLBACK at the error.
RunTransaction(s, busy, fault, op, arg, t) ==
    LET begin == IF TxMode = "immediate" THEN "BEGIN IMMEDIATE" ELSE "BEGIN"
        stmt == IF op = "update" THEN "UPDATE" ELSE "DELETE"
        found == IF fault THEN IoError ELSE NoteDao_findById(s, CallId(op, arg))
        written == IF op = "update" THEN NoteDao_update(s, arg, t)
                                    ELSE NoteDao_deleteById(s, arg)
    IN IF TxMode = "immediate" /\ busy
         THEN Done(Thrown("SqliteError", "SQLITE_BUSY"), s, 0, <<begin>>)
       ELSE IF found.status # "ok"
         THEN Done(ServiceWrap(found), s, 0, <<begin, "SELECT", "ROLLBACK">>)
       ELSE IF NoteInexistent(found.val)
         THEN Done(Thrown("EntityNotFoundError", "none"), s, 0, <<begin, "SELECT", "ROLLBACK">>)
       ELSE IF busy
         THEN Done(ServiceWrap(Thrown("DaoError", "SQLITE_BUSY")), s, 0,
                   <<begin, "SELECT", stmt, "ROLLBACK">>)
       ELSE Done(Ok(Undefined), written.store, written.changes,
                 <<begin, "SELECT", stmt, "COMMIT">>)

\* parseInt(text, 10) of a query parameter: the integer its leading digits
\* spell, NaN when it has none.
parseInt(text) ==
    IF IsString(text) /\ text.form = "digits" THEN Number(text.int) ELSE NaN

\* A query string value that starts with the digits of n, followed by rest.
Digits(n, rest) == [kind |-> "string", form |-> "digits", int |-> n, rest |-> rest]

\* The service was not called.
NotCalled == [status |-> "none", cause |-> "none", val |-> NULL]

\* A response sent once: status code and body (Undefined: no body).
Reply(code, body) == [code |-> code, body |-> body, sends |-> 1, unhandled |-> "none"]

\* The error handler of the application, reached by next(err).
ErrorHandlerReply(err) == Reply(500, err.status)

NextErrThenReturn(err) == ErrorHandlerReply(err)

\* next(err) without return in the catch block of PUT and DELETE: the error
\* handler answers, then the handler's last line sends again, which throws
\* inside the async handler.
NextErrThenSendAgain(err) ==
    [ErrorHandlerReply(err) EXCEPT !.sends = 2, !.unhandled = "ERR_HTTP_HEADERS_SENT"]

RejectedNotFound(err) == FALSE

\* err instanceof EntityNotFoundError
IsEntityNotFound(err) == err.status = "EntityNotFoundError"

\* The catch block of GET /:id reads idValue, which is not declared: the
\* ReferenceError leaves the async handler before next(err), no response is
\* sent.
CatchThrowsReferenceError(err) ==
    [code |-> 0, body |-> Undefined, sends |-> 0, unhandled |-> "ReferenceError"]

\* A handler has finished: the request, the service call's outcome, the
\* response, what the call did to the database, and the time a refused
\* statement has waited for the write lock.
Handled(w, route, req, done, response) ==
    /\ pc[w] = "idle"
    /\ ret' = Outcome(w, route, req,
                      [status |-> done.r.status, cause |-> done.r.cause, val |-> response],
                      done.changes)
    /\ sql' = done.stmts
    /\ db' = done.store
    /\ otherWrites' = (otherWrites \/ (done.changes > 0 /\ route # "POST /"))
    /\ nextSeq' = IF route = "POST /" /\ done.changes > 0 THEN nextSeq + 1 ELSE nextSeq
    /\ issued' = issued \cup DOMAIN done.store
    /\ UNCHANGED proc
    /\ scan' = IF done.changes > 0 THEN ScanIdle ELSE scan
    /\ now' = IF done.r.cause = "SQLITE_BUSY" THEN now + BusyTimeout ELSE now
    /\ UNCHANGED <<lock, pc, call, tx>>

\* return res.status(StatusCodes.BAD_REQUEST).json({ error })
BadRequest(w, route, req) ==
    Handled(w, route, req, Done(NotCalled, db, 0, <<>>), Reply(400, "error"))

\* router.get("/")
Http_list(w, pageSizeText, afterIdText, fault) ==
    LET req == [pageSize |-> pageSizeText, afterId |-> afterIdText]
        pageSize == IF pageSizeText = Undefined THEN Undefined ELSE parseInt(pageSizeText)
        afterId == IF afterIdText = Undefined THEN Ok(Undefined) ELSE UuidV4_new(afterIdText)
        done == RunList(db, fault, pageSize, afterId.val)
    IN IF pageSize # Undefined /\ ~IsInteger(pageSize) THEN BadRequest(w, "GET /", req)
       ELSE IF afterId.status # "ok" THEN BadRequest(w, "GET /", req)
       ELSE Handled(w, "GET /", req, done,
                    IF done.r.status = "ok" THEN Reply(200, done.r.val)
                                            ELSE NextErrThenReturn(done.r))

\* router.get("/:id")
Http_get(w, idText, fault) ==
    LET req == [id |-> idText]
        id == UuidV4_new(idText)
        done == RunFindById(db, fault, id.val)
    IN IF id.status # "ok" THEN BadRequest(w, "GET /:id", req)
       ELSE Handled(w, "GET /:id", req, done,
                    IF done.r.status # "ok" THEN CatchThrowsReferenceError(done.r)
                    ELSE IF done.r.val = NULL THEN Reply(404, Undefined)
                    ELSE Reply(200, done.r.val))

\* router.post("/")
Http_post(w, content, fault) ==
    LET req == [content |-> content]
    IN IF content = Undefined \/ ~IsString(content) THEN BadRequest(w, "POST /", req)
       ELSE /\ nextSeq <= MaxCreates
            /\ \E id \in FreshUuids :
                 LET done == RunCreate(db, lock # NoWorker, fault, NoteForCreate(content.value),
                                       id, now, nextSeq)
                 IN Handled(w, "POST /", req, done,
                            IF done.r.status = "ok" THEN Reply(201, [id |-> done.r.val])
                                                    ELSE NextErrThenReturn(done.r))

\* The catch block and the last line of router.put("/:id") and
\* router.delete("/:id").
MutationReply(r) ==
    IF r.status = "ok" THEN Reply(204, Undefined)
    ELSE IF IsEntityNotFound(r) THEN Reply(404, Undefined)
    ELSE NextErrThenSendAgain(r)

\* router.put("/:id")
Http_put(w, idText, content, fault) ==
    LET req == [id |-> idText, content |-> content]
        id == UuidV4_new(idText)
        done == RunTransaction(db, lock # NoWorker, fault, "update",
                               NoteForUpdate(id.val, content.value), now)
    IN IF id.status # "ok" THEN BadRequest(w, "PUT /:id", req)
       ELSE IF content = Undefined \/ ~IsString(content) THEN BadRequest(w, "PUT /:id", req)
       ELSE Handled(w, "PUT /:id", req, done, MutationReply(done.r))

\* router.delete("/:id")
Http_delete(w, idText, fault) ==
    LET req == [id |-> idText]
        id == UuidV4_new(idText)
        done == RunTransaction(db, lock # NoWorker, fault, "deleteById", id.val, now)
    IN IF id.status # "ok" THEN BadRequest(w, "DELETE /:id", req)
       ELSE Handled(w, "DELETE /:id", req, done, MutationReply(done.r))

\* The :id and afterId texts of the requests: the version 4 identifiers in
\* lower case, a version 1 UUID and a word.
IdTexts ==
    {UuidString(b, FALSE, 4, TRUE) : b \in IdBytes}
       \cup {UuidString(1, FALSE, 1, TRUE), Str("a")}

\* The content fields of the request bodies: missing, a number, strings.
BodyContents == {Undefined, Number(0)} \cup {Str(content) : content \in Contents}

\* The pageSize texts of the query strings: missing, "0", "1", "101", "1.5"
\* and "abc".
PageSizeTexts ==
    {Undefined, Digits(0, ""), Digits(1, ""), Digits(101, ""), Digits(1, ".5"), Str("abc")}

\* The requests for single notes a process handles.
Requests(w) ==
    \/ \E idText \in IdTexts, fault \in BOOLEAN : Http_get(w, idText, fault)
    \/ \E content \in BodyContents, fault \in BOOLEAN : Http_post(w, content, fault)
    \/ \E idText \in IdTexts, content \in BodyContents, fault \in BOOLEAN :
         Http_put(w, idText, content, fault)
    \/ \E idText \in IdTexts, fault \in BOOLEAN : Http_delete(w, idText, fault)

\* The transactions of the other worker process, which hold the write lock
\* while they are open.
OtherWorker(w) ==
    \/ \E id \in FreshUuids, content \in Contents : NoteService_update(w, NoteForUpdate(id, content))
    \/ updateIfExists_find(w)
    \/ updateIfExists_update(w)
    \/ Commit(w)

NextHttp ==
    \/ Tick
    \/ Requests("w1")
    \/ OtherWorker("w2")

\* A worker process answering requests while another worker process of the
\* cluster updates notes.
SpecHttp == Init /\ [][NextHttp]_vars

\* The requests for pages of notes, and those that create the notes.
ListRequests(w) ==
    \/ \E pageSizeText \in PageSizeTexts, afterIdText \in {Undefined} \cup IdTexts, fault \in BOOLEAN :
         Http_list(w, pageSizeText, afterIdText, fault)
    \/ \E content \in BodyContents : Http_post(w, content, FALSE)

NextHttpList ==
    \/ Tick
    \/ ListRequests("w1")

\* A single process answering list requests.
SpecHttpList == Init /\ [][NextHttpList]_vars

(***************************************************************************)
(* The UuidV4 class on its own: a value is given, new UuidV4(value) is     *)
(* called with it, and the object's value is read any number of times.     *)
(***************************************************************************)

\* The sixteen hexadecimal digits the version position of a UUID string can
\* hold.
VersionDigits == 0..15

\* The values given to the constructor: strings of the UUID layout with any
\* version digit, variant digit and letter case, the nil UUID, other strings,
\* and values that are no strings.
UuidValues ==
    {UuidString(b, upper, version, variantOk) :
        b \in IdBytes, upper \in BOOLEAN, version \in VersionDigits, variantOk \in BOOLEAN}
       \cup {NilUuidString, Str(""), Str(" "), Str("a")}
       \cup {Undefined, NULL, Number(0), [kind |-> "object"]}

\* A value a caller holds, before anything is done with it.
Given(value) == Outcome("w1", "given", value, NotCalled, 0)

InitUuid ==
    /\ db = EmptyStore
    /\ now = 0
    /\ lock = NoWorker
    /\ pc = [w \in Workers |-> "idle"]
    /\ call = [w \in Workers |-> NoCall]
    /\ tx = [w \in Workers |-> EmptyStore]
    /\ ret \in {Given(value) : value \in UuidValues}
    /\ sql = <<>>
    /\ nextSeq = 1
    /\ otherWrites = FALSE
    /\ scan = ScanIdle
    /\ issued = {}
    /\ proc = Running

\* new UuidV4(value) with the value given.
New_UuidV4(w) ==
    /\ ret.op = "given"
    /\ ret' = Outcome(w, "new UuidV4", ret.arg, UuidV4_new(ret.arg), 0)
    /\ UNCHANGED <<db, now, lock, pc, call, tx, sql, nextSeq, issued, proc, otherWrites, scan>>

\* The UuidV4 object the latest step constructed or read.
Constructed == IF ret.op = "new UuidV4" THEN ret.val ELSE ret.arg

\* uuid.value and uuid.toJSON() of the constructed object.
Read_UuidV4(w, getter) ==
    /\ ret.op \in {"new UuidV4", "UuidV4.value", "UuidV4.toJSON"}
    /\ ret.status = "ok"
    /\ ret' = Outcome(w, getter, Constructed, Ok(UuidV4_value(Constructed)), 0)
    /\ UNCHANGED <<db, now, lock, pc, call, tx, sql, nextSeq, issued, proc, otherWrites, scan>>

NextUuid ==
    \/ New_UuidV4("w1")
    \/ Read_UuidV4("w1", "UuidV4.value")
    \/ Read_UuidV4("w1", "UuidV4.toJSON")

SpecUuid == InitUuid /\ [][NextUuid]_vars

(***************************************************************************)
(* Properties                                                              *)
(***************************************************************************)
\* The step completes a call of update or deleteById for an identifier that
\* has no committed row.
EndsMutationOfAbsent ==
    /\ ret' # ret
    /\ ret'.op \in {"update", "deleteById"}
    /\ parseUuid(CallId(ret'.op, ret'.arg)) \notin DOMAIN db

\* C1: from BEGIN to COMMIT or ROLLBACK of a service update or deleteById the
\* calling worker holds the write lock (taken by BEGIN IMMEDIATE, before the
\* existence check), the check reads the committed rows, and no step of
\* another worker changes the committed rows: they change only by the
\* transaction's own COMMIT.
C1_CheckAndWriteInOneImmediateTransaction ==
    [][\A w \in Workers :
          pc[w] # "idle" =>
             /\ lock = w
             /\ pc[w] \in {"began", "checked"} => tx[w] = db
             /\ db' # db => pc[w] = "wrote" /\ pc'[w] = "idle"]_vars

\* A worker is between its existence check and its write while another
\* worker's write has just been refused.
C1_Witness ==
    \E w \in Workers :
       /\ pc[w] = "checked"
       /\ ret.w \in Workers \ {w}
       /\ ret.cause = "SQLITE_BUSY"

\* C2: whenever a service update has returned without error, its UPDATE
\* statement matched one row, and the committed row with that id holds the
\* content given.
C2_UpdateSucceedsOnlyIfRowOverwritten ==
    ret.op = "update" /\ ret.status = "ok" =>
       /\ ret.changes = 1
       /\ parseUuid(ret.arg.id) \in DOMAIN db
       /\ db[parseUuid(ret.arg.id)].content = ret.arg.content

\* An update has succeeded on a row that an earlier update had written, and
\* it changed the content.
C2_Witness ==
    /\ ret.op = "update"
    /\ ret.status = "ok"
    /\ ret.val # NULL
    /\ ret.val.lastUpdatedDateTime > ret.val.creationDateTime
    /\ ret.val.content # ret.arg.content

C4_PagesEnumerateEveryNoteOnce ==
    scan.state = "done" =>
       /\ {scan.seen[i] : i \in 1..Len(scan.seen)} = DOMAIN db
       /\ Len(scan.seen) = Cardinality(DOMAIN db)

\* C5 as claimed: after creates only, the i-th note (from 0) of list() without
\* afterId is the note created (i+1)-th from last.
C5_ListIsReverseCreationOrder ==
    ret.op = "list" /\ ret.status = "ok" /\ ret.arg.afterId = Undefined /\ ~otherWrites =>
       \A i \in 1..Len(ret.val.notes) :
          db[parseUuid(ret.val.notes[i].id)].seq = nextSeq - i

\* C6: a findById(id) that follows a create(c) which returned id, with nothing
\* but clock ticks in between, returns a Note with that id, content c and
\* lastUpdatedDateTime equal to creationDateTime.
C6_CreateThenFindByIdRoundTrip ==
    [][ret.op = "create" /\ ret.status = "ok" /\ ret'.op = "findById" /\ ret'.arg = ret.val =>
          /\ ret'.status = "ok"
          /\ ret'.val # NULL
          /\ ret'.val.id = ret.val
          /\ ret'.val.content = ret.arg.content
          /\ ret'.val.lastUpdatedDateTime = ret'.val.creationDateTime]_vars

\* findById has returned the only note created so far, of empty content and
\* created at clock reading 1, no other write having happened.
C6_Witness ==
    /\ ret.op = "findById"
    /\ ret.status = "ok"
    /\ ret.val # NULL
    /\ ret.val.content = ""
    /\ ret.val.creationDateTime = 1
    /\ nextSeq = 2
    /\ ~otherWrites

\* C7: in the step in which a service update(id, c2) returns without error,
\* findById(id) on the new rows returns content c2 and a lastUpdatedDateTime
\* not below the one the row had before.
C7_UpdateSetsContentAndBumpsLastUpdated ==
    [][ret' # ret /\ ret'.op = "update" /\ ret'.status = "ok" =>
          LET found == NoteDao_findById(db', ret'.arg.id)
          IN /\ found.status = "ok"
             /\ found.val # NULL
             /\ found.val.content = ret'.arg.content
             /\ parseUuid(ret'.arg.id) \in DOMAIN db
             /\ found.val.lastUpdatedDateTime >= db[parseUuid(ret'.arg.id)].lastUpdatedDateTime]_vars

\* An update with the content the note already had has succeeded, and the
\* note's lastUpdatedDateTime has moved on.
C7_Witness ==
    /\ ret.op = "update"
    /\ ret.status = "ok"
    /\ ret.val # NULL
    /\ ret.val.content = ret.arg.content
    /\ db[parseUuid(ret.arg.id)].lastUpdatedDateTime > ret.val.lastUpdatedDateTime

\* C8: no step changes the creationDateTime of a note that is persisted before
\* and after it.
C8_CreationTimeNeverChanges ==
    [][\A k \in DOMAIN db \cap DOMAIN db' :
          db'[k].seq = db[k].seq => db'[k].creationDateTime = db[k].creationDateTime]_vars

\* An update has just been committed at a later clock reading than the note's
\* creation, and the note still has the creationDateTime the check had read.
C8_Witness ==
    /\ ret.op = "update"
    /\ ret.status = "ok"
    /\ ret.val # NULL
    /\ parseUuid(ret.arg.id) \in DOMAIN db
    /\ db[parseUuid(ret.arg.id)].creationDateTime = ret.val.creationDateTime
    /\ db[parseUuid(ret.arg.id)].creationDateTime < now

\* C9: every persisted note has lastUpdatedDateTime >= creationDateTime.
C9_LastUpdatedNotBeforeCreation ==
    \A k \in DOMAIN db : db[k].lastUpdatedDateTime >= db[k].creationDateTime

\* A note created at clock reading 1 has been updated, beside a note whose
\* lastUpdatedDateTime is later than its creationDateTime.
C9_Witness ==
    /\ otherWrites
    /\ \E k \in DOMAIN db : db[k].creationDateTime = 1
    /\ \E k \in DOMAIN db : db[k].lastUpdatedDateTime > db[k].creationDateTime

\* C10: findById with a valid identifier that has no row returns null without
\* an error, from the DAO and from the service.
C10_FindByIdOfAbsentReturnsNull ==
    /\ \A id \in UuidArgs :
          parseUuid(id) \notin DOMAIN db => NoteDao_findById(db, id) = Ok(NULL)
    /\ ret.op = "findById" /\ parseUuid(ret.arg) \notin DOMAIN db =>
          ret.status = "ok" /\ ret.val = NULL

\* The service's findById has returned null for an identifier while another
\* note is persisted and a note has been deleted.
C10_Witness ==
    /\ ret.op = "findById"
    /\ ret.status = "ok"
    /\ ret.val = NULL
    /\ otherWrites
    /\ Cardinality(DOMAIN db) = 1
    /\ nextSeq = 3

\* The step's call was list, of the DAO or of the service.
IsListCall(r) == r.op \in {"list", "dao.list"}

\* C11: a list call of the DAO or of the service with an integer pageSize
\* below 1 or above 100 fails with RangeError and has sent no statement to the
\* database; with an integer pageSize from 1 to 100 it never fails with
\* RangeError, and with pageSize 1 or 100 and a valid afterId it returns a
\* page.
C11_PageSizeOutsideRangeIsRangeError ==
    IsListCall(ret) /\ IsInteger(ret.arg.pageSize) =>
       IF ret.arg.pageSize.value < 1 \/ ret.arg.pageSize.value > 100
         THEN ret.status = "RangeError" /\ sql = <<>>
         ELSE /\ ret.status # "RangeError"
              /\ ret.arg.pageSize.value \in {1, 100} /\ ret.arg.afterId \in {Undefined} \cup UuidArgs =>
                    ret.status = "ok" /\ sql = <<"SELECT">>

\* The service's list has refused pageSize 101 with two notes persisted.
C11_Witness ==
    /\ ret.op = "list"
    /\ ret.arg.pageSize = Number(101)
    /\ ret.status = "RangeError"
    /\ Cardinality(DOMAIN db) = 2

\* C12: a list call without afterId and with pageSize from 1 to 100 returns
\* exactly min(pageSize, number of persisted notes) notes, hence never more
\* than pageSize.
C12_ListReturnsMinOfPageSizeAndCount ==
    /\ IsListCall(ret)
    /\ ret.status = "ok"
    /\ ret.arg.afterId = Undefined
    /\ ret.arg.pageSize # Undefined
    => LET size == ret.arg.pageSize.value
           count == Cardinality(DOMAIN db)
       IN /\ Len(ret.val.notes) <= size
          /\ Len(ret.val.notes) = IF size < count THEN size ELSE count

\* list(1) has returned a full page of one note while two notes are persisted.
C12_Witness ==
    /\ IsListCall(ret)
    /\ ret.status = "ok"
    /\ ret.arg.afterId = Undefined
    /\ ret.arg.pageSize = Number(1)
    /\ Len(ret.val.notes) = 1
    /\ Cardinality(DOMAIN db) = 2

\* The methods of the service, as the op of an outcome.
ServiceOps == {"create", "findById", "list", "findAll", "update", "deleteById"}

\* C13 as claimed: a call of a service method ends without error, or with
\* TypeError, RangeError, EntityNotFoundError or ServiceError; and whenever
\* its failure has a storage error as root cause, it is a ServiceError.
C13_ServiceFailuresAreOfThreeKinds ==
    ret.op \in ServiceOps =>
       /\ ret.status \in {"ok", "TypeError", "RangeError", "EntityNotFoundError", "ServiceError"}
       /\ ret.cause # "none" => ret.status = "ServiceError"

\* The arguments that are of the wrong type for a method: anything but a
\* NoteForCreate (or a NoteForUpdate, which extends it) for create, anything
\* but a NoteForUpdate for update, anything but a UuidV4 for findById and
\* deleteById.
WrongTypeArgs(op) ==
    IF op \in {"create", "dao.create"} THEN BadArgs \cup UuidArgs
    ELSE IF op \in {"update", "dao.update"}
      THEN BadArgs \cup UuidArgs \cup {NoteForCreate(content) : content \in Contents}
    ELSE IF op \in {"findById", "dao.findById", "deleteById", "dao.deleteById"}
      THEN NoteArgs \ UuidArgs
    ELSE {}

\* C14: a step that completes a call of create, update, findById or
\* deleteById, of the DAO or of the service, with an argument of the wrong
\* type ends it with TypeError, has sent no statement (no BEGIN either) to
\* the database, and leaves the rows, the write lock and every transaction as
\* they were.
C14_WrongTypeArgumentIsTypeErrorBeforeAnyStatement ==
    [][ret'.arg \in WrongTypeArgs(ret'.op) =>
          /\ ret'.status = "TypeError"
          /\ sql' = <<>>
          /\ db' = db
          /\ lock' = lock
          /\ pc' = pc
          /\ tx' = tx]_vars

\* The service's update has refused a NoteForCreate while a note is persisted.
C14_Witness ==
    /\ ret.op = "update"
    /\ ret.arg = NoteForCreate("a")
    /\ ret.status = "TypeError"
    /\ sql = <<>>
    /\ Cardinality(DOMAIN db) = 1

\* The step ends a call of update or deleteById, of the DAO or of the
\* service, that passed its argument check.
EndsMutation ==
    /\ ret'.op \in {"update", "deleteById", "dao.update", "dao.deleteById"}
    /\ ret'.status # "TypeError"

\* C15: a step that ends an update or deleteById call, of the DAO or of the
\* service, leaves every row but the one with the given id as it was: such a
\* row keeps content, creationDateTime and lastUpdatedDateTime, and findById
\* and findAll on the new rows still return its note, unchanged.
C15_MutationsTouchOnlyTheGivenRow ==
    [][EndsMutation =>
          \A k \in DOMAIN db \ {parseUuid(CallId(ret'.op, ret'.arg))} :
             /\ k \in DOMAIN db'
             /\ db'[k] = db[k]
             /\ NoteDao_findById(db', uuidv4FromRandom(k)) = Ok(mapRowToNote(k, db[k]))
             /\ \E i \in 1..Len(NoteDao_findAll(db').val) :
                   NoteDao_findAll(db').val[i] = mapRowToNote(k, db[k])]_vars

\* A service update has changed the content of one of two persisted notes,
\* and the other note has a different content.
C15_Witness ==
    /\ ret.op = "update"
    /\ ret.status = "ok"
    /\ ret.val.content # ret.arg.content
    /\ Cardinality(DOMAIN db) = 2
    /\ \E k \in DOMAIN db : db[k].content # ret.arg.content

\* C16 as claimed: the notes findAll returns are in the order of their
\* creation, whatever was deleted in between.
C16_FindAllInCreationOrder ==
    ret.op \in {"findAll", "dao.findAll"} /\ ret.status = "ok" =>
       \A i, j \in 1..Len(ret.val) :
          i < j => db[parseUuid(ret.val[i].id)].seq < db[parseUuid(ret.val[j].id)].seq

\* The routes that take the note's identifier from the path.
IdRoutes == {"GET /:id", "PUT /:id", "DELETE /:id"}

\* The step answers a GET, PUT (with a string content) or DELETE request
\* whose :id is a version 4 UUID that has no row.
AnswersRequestForAbsentId ==
    /\ ret' # ret
    /\ ret'.op \in IdRoutes
    /\ validateUuid(ret'.arg.id) /\ uuidVersion(ret'.arg.id) = 4
    /\ ret'.op = "PUT /:id" => IsString(ret'.arg.content)
    /\ ret'.arg.id.bytes \notin DOMAIN db

WellFormedPageSize(text) ==
    \/ text = Undefined
    \/ IsString(text) /\ text.form = "digits" /\ text.rest = "" /\ text.int >= 1 /\ text.int <= 100

\* The text is a version 4 UUID.
WellFormedId(text) == validateUuid(text) /\ uuidVersion(text) = 4

\* The request of an outcome is malformed: an id or afterId that is no
\* version 4 UUID, a content that is missing or no string, a pageSize that is
\* no integer from 1 to 100.
Malformed(r) ==
    \/ r.op \in IdRoutes /\ ~WellFormedId(r.arg.id)
    \/ r.op \in {"POST /", "PUT /:id"} /\ ~IsString(r.arg.content)
    \/ r.op = "GET /" /\ r.arg.afterId # Undefined /\ ~WellFormedId(r.arg.afterId)
    \/ r.op = "GET /" /\ ~WellFormedPageSize(r.arg.pageSize)

\* C18 as claimed: a malformed request is answered with 400, and no
\* statement is sent to the database for it.
C18_MalformedRequestIsAnswered400 ==
    Malformed(ret) => ret.val.code = 400 /\ sql = <<>>

\* The routes of the notes router.
Routes == IdRoutes \cup {"GET /", "POST /"}

\* C19 as claimed: when the service call of a request has failed with an
\* error other than EntityNotFoundError, the request is answered with 500.
C19_ServiceFailureIsAnswered500 ==
    ret.op \in Routes /\ ret.status \notin {"none", "ok", "EntityNotFoundError"} =>
       ret.val.code = 500

\* The value is a string of the UUID layout with version digit 4 and a
\* variant digit of 8, 9, a or b.
IsVersion4UuidString(value) ==
    /\ IsString(value)
    /\ value.form = "uuid"
    /\ value.version = 4
    /\ value.variantOk

\* The getters of a UuidV4.
UuidV4Reads == {"UuidV4.value", "UuidV4.toJSON"}

\* C20: new UuidV4(value) returns an object exactly when value is a version 4
\* UUID string, and throws TypeError without producing an object for every
\* other value; the first read of the object's value gives the string it was
\* constructed from, and every later read gives what the read before gave.
C20_UuidV4AcceptsExactlyVersion4Strings ==
    [][/\ ret'.op = "new UuidV4" =>
             /\ ret'.status = "ok" <=> IsVersion4UuidString(ret'.arg)
             /\ ret'.status # "ok" => ret'.status = "TypeError" /\ ret'.val = NULL
       /\ ret.op = "new UuidV4" /\ ret'.op \in UuidV4Reads => ret'.val = ret.arg
       /\ ret.op \in UuidV4Reads /\ ret'.op \in UuidV4Reads => ret'.val = ret.val]_vars

\* toJSON() of a UuidV4 constructed from an upper case string has returned
\* that string.
C20_Witness ==
    /\ ret.op = "UuidV4.toJSON"
    /\ ret.arg.upper
    /\ ret.val = UuidString(1, TRUE, 4, TRUE)

(***************************************************************************)
(* C21..C30                                                                *)
(***************************************************************************)

\* A step in which a service or DAO create returns the identifier of the
\* note it has persisted.
CreateReturnsId ==
    /\ ret' # ret
    /\ ret'.op \in {"create", "dao.create", "POST /"}
    /\ ret'.status = "ok"

\* The bytes of the identifier that step returns.
ReturnedId == IF ret'.op = "POST /" THEN DOMAIN db' \ DOMAIN db ELSE {parseUuid(ret'.val)}

BeginRefused ==
    /\ ret' # ret
    /\ ret'.op \in {"update", "deleteById"}
    /\ ret'.status = "SqliteError"
    /\ ret'.cause = "SQLITE_BUSY"

\* C22 as claimed: after the schema bootstrap the busy timeout of the
\* connection is a positive bound, so an update or deleteById whose
\* transaction start finds the write lock held waits, and fails with a busy
\* error only when it has waited that long.
C22_BusyOnlyAfterTheBoundedWait ==
    [][BeginRefused => BusyTimeout > 0 /\ now' >= now + BusyTimeout]_vars

(***************************************************************************)
(* Reads in progress while other workers write.  A SELECT is synchronous   *)
(* within its process, but the other processes of the cluster run while it *)
(* reads: here it takes two steps.                                         *)
(***************************************************************************)

\* The SELECT of findById, list or findAll starts: in WAL mode it reads the
\* snapshot of the moment and takes no lock; with a rollback journal it
\* would share the database lock writers need.
ReadBegin(w, op, arg) ==
    /\ pc[w] = "idle"
    /\ sql' = <<"SELECT">>
    /\ IF JournalMode = "wal" \/ lock = NoWorker
         THEN /\ pc' = [pc EXCEPT ![w] = "reading"]
              /\ call' = [call EXCEPT ![w] = [NoCall EXCEPT !.op = op, !.arg = arg]]
              /\ tx' = [tx EXCEPT ![w] = db]
              /\ lock' = IF JournalMode = "wal" THEN lock ELSE w
              /\ ret' = NoRet
              /\ UNCHANGED now
         ELSE /\ ret' = Outcome(w, op, arg, ServiceWrap(Thrown("DaoError", "SQLITE_BUSY")), 0)
              /\ now' = now + BusyTimeout
              /\ UNCHANGED <<lock, pc, call, tx>>
    /\ UNCHANGED <<db, nextSeq, issued, proc, otherWrites, scan>>

\* The array findAll returns, as a value of its own kind.
Array(items) == [kind |-> "array", items |-> items]

\* The SELECT has read its rows: the method maps them and returns.
ReadEnd(w) ==
    LET arg == call[w].arg
        r == IF call[w].op = "findById" THEN NoteDao_findById(tx[w], arg)
             ELSE IF call[w].op = "list" THEN NoteDao_list(tx[w], arg.pageSize, arg.afterId)
             ELSE Ok(Array(NoteDao_findAll(tx[w]).val))
    IN /\ pc[w] = "reading"
       /\ ret' = Outcome(w, call[w].op, arg, ServiceWrap(r), 0)
       /\ sql' = <<>>
       /\ pc' = [pc EXCEPT ![w] = "idle"]
       /\ call' = [call EXCEPT ![w] = NoCall]
       /\ tx' = [tx EXCEPT ![w] = EmptyStore]
       /\ lock' = IF lock = w THEN NoWorker ELSE lock
       /\ UNCHANGED <<db, now, nextSeq, issued, proc, otherWrites, scan>>

\* The reads of a worker.
Reads(w) ==
    \/ \E id \in FreshUuids : ReadBegin(w, "findById", id)
    \/ ReadBegin(w, "list", [pageSize |-> Undefined, afterId |-> Undefined])
    \/ ReadBegin(w, "findAll", Undefined)
    \/ ReadEnd(w)

\* The steps inside the transaction function of update and deleteById, which
\* better-sqlite3 runs synchronously from BEGIN to COMMIT or ROLLBACK.
TransactionStep(w) ==
    \/ updateIfExists_find(w)
    \/ updateIfExists_update(w)
    \/ deleteIfExists_find(w)
    \/ deleteIfExists_delete(w)
    \/ Commit(w)

\* The writes of a worker.
Writes(w) ==
    \/ \E content \in Contents : NoteService_create(w, NoteForCreate(content))
    \/ \E id \in FreshUuids, content \in Contents : NoteService_update(w, NoteForUpdate(id, content))
    \/ \E id \in FreshUuids : NoteService_deleteById(w, id)
    \/ TransactionStep(w)

NextReads ==
    \/ Tick
    \/ Reads("w1")
    \/ \E content \in Contents : NoteService_create("w1", NoteForCreate(content))
    \/ Writes("w2")

\* One worker that reads and creates, one that creates, updates and deletes;
\* a transaction that has begun runs on: nothing but the thread's own
\* synchronous calls stands between BEGIN and COMMIT.  (Every step of a
\* transaction changes pc.)
SpecReads ==
    Init /\ [][NextReads]_vars /\ WF_pc(TransactionStep("w2"))

\* Worker w is inside the transaction of update or deleteById.
InTransaction(w) == pc[w] \in {"began", "checked", "wrote"}

\* A step after which the latest call is a write of the service refused with
\* SQLITE_BUSY: the step of the refusal, where the lock is as the refused
\* statement found it, or a tick of the clock following it.
WriteRefused ==
    /\ ret'.op \in {"create", "update", "deleteById"}
    /\ ret'.cause = "SQLITE_BUSY"

\* C23: a read in progress in one worker (findById, list, findAll) never
\* keeps a writer of another worker from the write lock: a create, update or
\* deleteById is refused only while a transaction of another writer holds
\* the lock, never because of a reader, and a reader holds no lock; under
\* fair scheduling every update or deleteById that has begun, reads in
\* progress or not, ends by committing or failing.
C23_ReadsNeverBlockWriters ==
    /\ [][WriteRefused => lock # NoWorker /\ InTransaction(lock)]_vars
    /\ [](\A w \in Workers : pc[w] = "reading" => lock # w)
    /\ \A w \in Workers : InTransaction(w) ~> (pc[w] = "idle")

\* Worker w2 has committed an update while the findAll of w1, begun before
\* on the rows as they were, is still reading.
C23_Witness ==
    /\ pc["w1"] = "reading"
    /\ call["w1"].op = "findAll"
    /\ ret.w = "w2"
    /\ ret.op = "update"
    /\ ret.status = "ok"
    /\ tx["w1"] # db

DaoMutationOfAbsent ==
    /\ now' = now
    /\ ret'.op \in {"dao.update", "dao.deleteById"}
    /\ ret'.status # "TypeError"
    /\ parseUuid(CallId(ret'.op, ret'.arg)) \notin DOMAIN db

\* C25: update and deleteById of the DAO, given an identifier that has no
\* row, return normally (undefined, no error of any kind) after their one
\* statement has matched no row, and leave the rows exactly as they were; in
\* particular update inserts nothing.
C25_DaoMutationOfAbsentIdIsANoOp ==
    [][DaoMutationOfAbsent =>
          /\ ret'.status = "ok"
          /\ ret'.val = Undefined
          /\ ret'.changes = 0
          /\ sql' = <<IF ret'.op = "dao.update" THEN "UPDATE" ELSE "DELETE">>
          /\ db' = db]_vars

\* The DAO's update has returned normally for an identifier without a row
\* while another note is persisted.
C25_Witness ==
    /\ ret.op = "dao.update"
    /\ ret.status = "ok"
    /\ ret.changes = 0
    /\ Cardinality(DOMAIN db) = 1
    /\ parseUuid(ret.arg.id) \notin DOMAIN db

\* C26 as claimed: the string value of every accepted identifier is the
\* canonical lowercase dashed form, so that the identifier of the note which
\* findById(id) returns has the same string value as id (two identifiers
\* address the same row only if their strings are equal).
C26_FindByIdReturnsTheGivenIdString ==
    ret.op = "findById" /\ ret.status = "ok" =>
       /\ ~ret.arg.upper
       /\ ret.val # NULL => UuidV4_value(ret.val.id) = UuidV4_value(ret.arg)

\* The step (not a tick of the clock) completes a call of the service: it
\* returns or throws.
CompletesServiceCall ==
    /\ now' = now
    /\ ret'.op \in {"create", "findById", "update", "deleteById"}

\* The call run to completion on the rows has outcome done: the status and
\* cause, the rows changed and the rows left are those of the step.
SameOutcome(done) ==
    /\ done.r.status = ret'.status
    /\ done.r.cause = ret'.cause
    /\ done.changes = ret'.changes
    /\ done.store = db'

\* The completed call, executed alone and at once on the rows committed
\* before the step, ends as the step does: with the same outcome, the same
\* value returned (for update and deleteById: the note their existence check
\* saw) and the same rows.  The INSERT takes its identifier from the
\* generator, the UPDATE the time of its statement.
SerialOutcome ==
    LET op == ret'.op
        arg == ret'.arg
    IN IF op = "create"
         THEN \E id \in FreshUuids :
                 LET done == RunCreate(db, FALSE, FALSE, arg, id, now, nextSeq)
                 IN SameOutcome(done) /\ done.r.val = ret'.val
       ELSE IF op = "findById"
         THEN LET done == RunFindById(db, FALSE, arg)
              IN SameOutcome(done) /\ done.r.val = ret'.val
       ELSE /\ \E t \in 0..now : SameOutcome(RunTransaction(db, FALSE, FALSE, op, arg, t))
            /\ ret'.status = "ok" => ret'.val = NoteDao_findById(db, CallId(op, arg)).val

EndsTransactionCall ==
    /\ now' = now
    /\ ret'.op \in {"update", "deleteById"}

\* C28: every update and deleteById call of the service ends with its
\* transaction finished.  When the call returns, the last statement was
\* COMMIT and the rows are those of the transaction; when it throws, either
\* BEGIN itself was refused or the last statement was ROLLBACK, and the rows
\* are as before; either way the worker is left outside any transaction,
\* without the write lock and without uncommitted rows.  While a transaction
\* is open its worker holds the write lock, and only then.
C28_EveryTransactionIsFinished ==
    /\ [][EndsTransactionCall =>
            LET w == ret'.w
            IN /\ pc'[w] = "idle"
               /\ lock' # w
               /\ tx'[w] = EmptyStore
               /\ IF ret'.status = "ok"
                    THEN sql'[Len(sql')] = "COMMIT" /\ db' = tx[w]
                    ELSE /\ db' = db
                         /\ \/ sql' = <<"BEGIN IMMEDIATE">> /\ pc[w] = "idle"
                            \/ sql'[Len(sql')] = "ROLLBACK"]_vars
    /\ [](\A w \in Workers : InTransaction(w) <=> lock = w)

\* An update has thrown EntityNotFoundError while a note is persisted: its
\* transaction was rolled back and nobody holds the write lock.
C28_Witness ==
    /\ ret.op = "update"
    /\ ret.status = "EntityNotFoundError"
    /\ sql = <<"SELECT", "ROLLBACK">>
    /\ lock = NoWorker
    /\ \A w \in Workers : pc[w] = "idle"
    /\ Cardinality(DOMAIN db) = 1

\* C29 as claimed: every request is answered exactly once: no handler sends
\* a second response after one has been sent, not even after it has passed
\* an error to the error handler, and no path through a handler ends without
\* a response (hence without an error left unhandled).
C29_ExactlyOneResponse ==
    ret.op \in Routes => ret.val.sends = 1 /\ ret.val.unhandled = "none"

(***************************************************************************)
(* Shutdown of a process: the worker of the cluster entry, which handles   *)
(* SIGTERM, and the single-process entry, which handles SIGTERM and        *)
(* SIGINT.  Each callback of the event loop is one step.                   *)
(***************************************************************************)

\* The signals the entry module installs a handler for.
HandledSignals(entry) ==
    IF entry = "single process" THEN {"SIGTERM", "SIGINT"} ELSE {"SIGTERM"}

InitShutdown ==
    /\ db = EmptyStore
    /\ now = 0
    /\ lock = NoWorker
    /\ pc = [w \in Workers |-> "idle"]
    /\ call = [w \in Workers |-> NoCall]
    /\ tx = [w \in Workers |-> EmptyStore]
    /\ ret = NoRet
    /\ sql = <<>>
    /\ nextSeq = 1
    /\ otherWrites = FALSE
    /\ scan = ScanIdle
    /\ issued = {}
    /\ proc \in {[Running EXCEPT !.entry = entry] : entry \in {"cluster worker", "single process"}}

\* A client connects to the listening server.
Connect ==
    /\ ~proc.exited
    /\ proc.server = "listening"
    /\ proc.connections < MaxConnections
    /\ proc' = [proc EXCEPT !.connections = @ + 1]
    /\ UNCHANGED <<db, now, lock, pc, call, tx, ret, sql, nextSeq, otherWrites, scan, issued>>

\* A request arrives on an open connection and its handler runs; a server
\* that is closing still serves the connections it has.
ServeGet ==
    /\ ~proc.exited
    /\ proc.connections > 0
    /\ \E idText \in IdTexts : Http_get("w1", idText, FALSE)

ServePost ==
    /\ ~proc.exited
    /\ proc.connections > 0
    /\ \E content \in BodyContents : Http_post("w1", content, FALSE)

\* A client's connection ends.
Disconnect ==
    /\ ~proc.exited
    /\ proc.connections > 0
    /\ proc' = [proc EXCEPT !.connections = @ - 1]
    /\ UNCHANGED <<db, now, lock, pc, call, tx, ret, sql, nextSeq, otherWrites, scan, issued>>

gracefulShutdownClosingConnectionAtOnce(signal) ==
    /\ ~proc.exited
    /\ signal \in HandledSignals(proc.entry)
    /\ proc.closeCallbacks < MaxSignals
    /\ proc' = [proc EXCEPT !.server = "closing",
                            !.closeCallbacks = @ + 1,
                            !.databaseConnection = "closed",
                            !.events = IF proc.databaseConnection = "open"
                                         THEN Append(@, "databaseConnection.close") ELSE @]
    /\ UNCHANGED <<db, now, lock, pc, call, tx, ret, sql, nextSeq, otherWrites, scan, issued>>

\* The handler of SIGTERM (and of SIGINT in the single-process entry):
\* server.close(callback).  The server stops listening and keeps the
\* callback for its 'close' event; on a server already closing a further
\* callback is kept for the same event.
gracefulShutdown(signal) ==
    /\ ~proc.exited
    /\ signal \in HandledSignals(proc.entry)
    /\ proc.closeCallbacks < MaxSignals
    /\ proc' = [proc EXCEPT !.server = "closing", !.closeCallbacks = @ + 1]
    /\ UNCHANGED <<db, now, lock, pc, call, tx, ret, sql, nextSeq, otherWrites, scan, issued>>

\* The server has stopped listening and its last connection has ended: it
\* emits 'close' and the first callback runs databaseConnection.close() and
\* process.exit(0); nothing runs after the exit.
serverCloseCallback ==
    /\ ~proc.exited
    /\ proc.server = "closing"
    /\ proc.connections = 0
    /\ proc' = [proc EXCEPT !.server = "closed",
                            !.databaseConnection = "closed",
                            !.exited = TRUE,
                            !.events = @ \o (IF proc.databaseConnection = "open"
                                               THEN <<"close", "databaseConnection.close", "process.exit">>
                                               ELSE <<"close", "process.exit">>)]
    /\ UNCHANGED <<db, now, lock, pc, call, tx, ret, sql, nextSeq, otherWrites, scan, issued>>

NextShutdown ==
    \/ Connect
    \/ ServeGet
    \/ ServePost
    \/ Disconnect
    \/ \E signal \in {"SIGTERM", "SIGINT"} : gracefulShutdown(signal)
    \/ serverCloseCallback

\* One process from its start to its exit.
SpecShutdown == InitShutdown /\ [][NextShutdown]_vars

\* The position of an event in the process's history, 0 when it has not
\* happened.
EventAt(name) ==
    IF \E i \in 1..Len(proc.events) : proc.events[i] = name
      THEN CHOOSE i \in 1..Len(proc.events) : proc.events[i] = name
      ELSE 0

\* C30: on SIGTERM, and on SIGINT in the single-process entry, the process
\* that runs the HTTP server (the worker of the cluster entry, the process
\* of the single-process entry) closes the database connection only after
\* the HTTP server has finished closing, and exits only after the connection is closed: the connection
\* is open as long as the server listens or has a connection on which a
\* request can arrive, every request handled finds it open, and in the
\* history of the process the server's 'close' comes before
\* databaseConnection.close, which comes before process.exit.
C30_ConnectionClosedAfterServerAndBeforeExit ==
    /\ [](proc.databaseConnection = "closed" =>
             proc.server = "closed" /\ proc.connections = 0)
    /\ [](proc.exited => proc.databaseConnection = "closed")
    /\ [](EventAt("databaseConnection.close") > 0 =>
             /\ EventAt("close") > 0
             /\ EventAt("close") < EventAt("databaseConnection.close"))
    /\ [](EventAt("process.exit") > 0 =>
             /\ EventAt("databaseConnection.close") > 0
             /\ EventAt("databaseConnection.close") < EventAt("process.exit"))
    /\ [][ret'.op \in Routes /\ proc' = proc => proc.databaseConnection = "open"]_vars

\* The single-process entry has received both of its signals: the server is
\* closing but still holds a connection, on which a note has been created,
\* and the database connection is open.
C30_Witness ==
    /\ proc.entry = "single process"
    /\ proc.server = "closing"
    /\ proc.closeCallbacks = 2
    /\ proc.connections = 1
    /\ proc.databaseConnection = "open"
    /\ ret.op = "POST /"
    /\ ret.status = "ok"

====
